---- MODULE Spec2Model ----
\* Model of main.py: the Basic-Auth protected endpoint, the access check,
\* the in-memory user repository and the two-scope wiring (APP / REQUEST).
EXTENDS Naturals, Sequences, FiniteSets

VARIABLES
    database,         \* APP scope: the list[User] instance of DBProvider.database
    pc,               \* per request: position in the request's life
    route,            \* per request: the path requested
    authorization,    \* per request: the Basic-Auth pair carried, or None
    credentials,      \* REQUEST scope: the HTTPBasicCredentialsProtocol instance
    user_repository,  \* REQUEST scope: the UserRepositoryProtocol instance
    access_service,   \* REQUEST scope: the AccessService instance
    outcome,          \* per request: check_auth's local `user` and how it ended
    response          \* per request: the response produced

vars == <<database, pc, route, authorization, credentials, user_repository,
          access_service, outcome, response>>

\* ---------------------------------------------------------------- bounds
NumRequests == 2
MaxStoreLen == 2

Requests == 1..NumRequests

\* ---------------------------------------------------------------- values
None == [none |-> TRUE]

User(username, password) == [username |-> username, password |-> password]

\* Inputs a client can send.  "User1" differs from a stored username in
\* letter case only, "PASS1" and "pass1 " differ from a stored password in
\* case and in whitespace only.
Usernames == {"user1", "user5", "User1", ""}
Passwords == {"pass1", "pass5", "PASS1", "pass1 "}
Routes == {"/", "/protected_resource/"}

HTTPBasicCredentials(username, password) ==
    [username |-> username, password |-> password]

Authorizations ==
    {None} \cup {HTTPBasicCredentials(u, p) : u \in Usernames, p \in Passwords}

\* ---------------------------------------------------------------- errors
UserNotFoundError == "UserNotFoundError"
UserNotAuthenticatedError == "UserNotAuthenticatedError"
AttributeError == "AttributeError"

Return(value) == [kind |-> "return", value |-> value, exc |-> "-"]
Raise(exc) == [kind |-> "raise", value |-> None, exc |-> exc]

\* ---------------------------------------------------------------- store
\* DBProvider.database: the factory of the APP-scoped list.
DBProvider_database ==
    << User("user1", "pass1"),
       User("user2", "pass2"),
       User("user3", "pass3"),
       User("user4", "pass4"),
       User("user5", "pass5") >>

NotCreated == [created |-> FALSE, instance |-> <<>>]
Created(list) == [created |-> TRUE, instance |-> list]

\* UserRepository.__init__: the repository keeps a reference to the list.
UserRepository(db) == [_database |-> "app"]

\* The list a repository's _database refers to.
Deref(repo, db) == db.instance

\* Letter case and surrounding whitespace removed, on the inputs used here.
Fold(str) ==
    CASE str = "User1" -> "user1"
      [] str = "PASS1" -> "pass1"
      [] str = "pass1 " -> "pass1"
      [] OTHER -> str

\* Variant of with_username: usernames compared without regard to case.
RECURSIVE first_match_casefold(_, _)
first_match_casefold(list, username) ==
    IF list = <<>> THEN None
    ELSE IF Fold(Head(list).username) = Fold(username) THEN Head(list)
    ELSE first_match_casefold(Tail(list), username)

with_username_casefold(repo, db, username) ==
    first_match_casefold(Deref(repo, db), username)

\* Variant of with_username: the last matching record, not the first.
RECURSIVE last_match(_, _)
last_match(list, username) ==
    IF list = <<>> THEN None
    ELSE IF list[Len(list)].username = username THEN list[Len(list)]
    ELSE last_match(SubSeq(list, 1, Len(list) - 1), username)

with_username_last(repo, db, username) == last_match(Deref(repo, db), username)

\* UserRepository.with_username: next(filter(pred, list), None), a scan in
\* list order that stops at the first record satisfying the predicate.
RECURSIVE first_match(_, _)
first_match(list, username) ==
    IF list = <<>> THEN None
    ELSE IF Head(list).username = username THEN Head(list)
    ELSE first_match(Tail(list), username)

with_username(repo, db, username) == first_match(Deref(repo, db), username)

\* ---------------------------------------------------------------- service
\* AccessService.__init__
AccessService(creds, repo) == [_credentials |-> creds, _user_repository |-> repo]

\* Variant of check_auth: the password test inverted (== for !=).
check_auth_eq(self, db) ==
    LET data == self._credentials
        repo == self._user_repository
    IN  IF data = None THEN [user |-> None, end |-> Raise(AttributeError)]
        ELSE LET user == with_username(repo, db, data.username)
             IN  [user |-> user,
                  end  |-> IF user = None THEN Raise(UserNotFoundError)
                           ELSE IF user.password = data.password
                                THEN Raise(UserNotAuthenticatedError)
                           ELSE Return(user)]

\* Variant of check_auth: passwords compared after case folding and stripping.
check_auth_casefold(self, db) ==
    LET data == self._credentials
        repo == self._user_repository
    IN  IF data = None THEN [user |-> None, end |-> Raise(AttributeError)]
        ELSE LET user == with_username(repo, db, data.username)
             IN  [user |-> user,
                  end  |-> IF user = None THEN Raise(UserNotFoundError)
                           ELSE IF Fold(user.password) # Fold(data.password)
                                THEN Raise(UserNotAuthenticatedError)
                           ELSE Return(user)]

\* Variant of check_auth: the password test left out.
check_auth_nopw(self, db) ==
    LET data == self._credentials
        repo == self._user_repository
    IN  IF data = None THEN [user |-> None, end |-> Raise(AttributeError)]
        ELSE LET user == with_username(repo, db, data.username)
             IN  [user |-> user,
                  end  |-> IF user = None THEN Raise(UserNotFoundError)
                           ELSE Return(user)]

\* Variant of check_auth: the final `return user` left out, so the call
\* falls off its end and returns None.
check_auth_implicit_none(self, db) ==
    LET data == self._credentials
        repo == self._user_repository
    IN  IF data = None THEN [user |-> None, end |-> Raise(AttributeError)]
        ELSE LET user == with_username(repo, db, data.username)
             IN  [user |-> user,
                  end  |-> IF user = None THEN Raise(UserNotFoundError)
                           ELSE IF user.password # data.password
                                THEN Raise(UserNotAuthenticatedError)
                           ELSE Return(None)]

\* AccessService.check_auth: the local `user` and how the call ends.
check_auth(self, db) ==
    LET data == self._credentials
        repo == self._user_repository
    IN  IF data = None THEN [user |-> None, end |-> Raise(AttributeError)]
        ELSE LET user == with_username(repo, db, data.username)
             IN  [user |-> user,
                  end  |-> IF user = None THEN Raise(UserNotFoundError)
                           ELSE IF user.password # data.password
                                THEN Raise(UserNotAuthenticatedError)
                           ELSE Return(user)]

\* ---------------------------------------------------------------- responses
HTTPException(status_code, detail, headers) ==
    [status_code |-> status_code, body |-> [detail |-> detail], headers |-> headers]

\* A handler returning a str: a 200 response carrying it.
Response200(text) == [status_code |-> 200, body |-> [text |-> text], headers |-> {}]

HTTP_401_UNAUTHORIZED == 401

\* What the framework answers when an exception the handler does not catch
\* leaves it.
InternalServerError ==
    [status_code |-> 500, body |-> [text |-> "Internal Server Error"], headers |-> {}]

\* Variant of security: HTTPBasic(auto_error=False).
security_optional == [auto_error |-> FALSE]

\* security = HTTPBasic(): the scheme is built with its defaults.
security == [auto_error |-> TRUE]

\* HTTPBasic.__call__: the credentials of the request, or the 401 challenge
\* when the request carries none.
HTTPBasic_call(scheme, auth) ==
    IF auth # None THEN Return(auth)
    ELSE IF scheme.auto_error
         THEN Raise(HTTPException(HTTP_401_UNAUTHORIZED, "Not authenticated",
                                  {<<"WWW-Authenticate", "Basic">>}))
         ELSE Return(None)

\* Variant of the handler's mapping: each failure kind named in the detail.
protected_resource_response_distinct(result) ==
    IF result.kind = "raise"
    THEN IF result.exc = UserNotFoundError
         THEN HTTPException(HTTP_401_UNAUTHORIZED, "User not found",
                            {<<"WWW-Authenticate", "Basic">>})
         ELSE IF result.exc = UserNotAuthenticatedError
         THEN HTTPException(HTTP_401_UNAUTHORIZED, "User not authenticated",
                            {<<"WWW-Authenticate", "Basic">>})
         ELSE InternalServerError
    ELSE Response200("You got my secret, welcome!")

\* get_protected_resource: the mapping of check_auth's end to the response.
protected_resource_response(result) ==
    IF result.kind = "raise"
    THEN IF result.exc \in {UserNotFoundError, UserNotAuthenticatedError}
         THEN HTTPException(HTTP_401_UNAUTHORIZED, "User not authenticated",
                            {<<"WWW-Authenticate", "Basic">>})
         ELSE InternalServerError
    ELSE Response200("You got my secret, welcome!")

\* index
FileResponse(path) == [status_code |-> 200, body |-> [file |-> path], headers |-> {}]

\* ---------------------------------------------------------------- state
InitRequests ==
    /\ pc = [r \in Requests |-> "idle"]
    /\ route = [r \in Requests |-> "-"]
    /\ authorization = [r \in Requests |-> None]
    /\ credentials = [r \in Requests |-> None]
    /\ user_repository = [r \in Requests |-> None]
    /\ access_service = [r \in Requests |-> None]
    /\ outcome = [r \in Requests |-> None]
    /\ response = [r \in Requests |-> None]

\* create_app: the container is made, no instance exists yet.
Init ==
    /\ database = NotCreated
    /\ InitRequests

\* A client sends a request.
Receive(r) ==
    /\ pc[r] = "idle"
    /\ \E path \in Routes, auth \in Authorizations :
          /\ route' = [route EXCEPT ![r] = path]
          /\ authorization' = [authorization EXCEPT ![r] = auth]
    /\ pc' = [pc EXCEPT ![r] = "received"]
    /\ UNCHANGED <<database, credentials, user_repository, access_service,
                   outcome, response>>

\* index: GET /
Index(r) ==
    /\ pc[r] = "received"
    /\ route[r] = "/"
    /\ response' = [response EXCEPT ![r] = FileResponse("public/index.html")]
    /\ pc' = [pc EXCEPT ![r] = "done"]
    /\ UNCHANGED <<database, route, authorization, credentials, user_repository,
                   access_service, outcome>>

\* REQUEST scope: the container awaits security(request) for the
\* HTTPBasicCredentialsProtocol dependency of AccessService.
ProvideCredentials(r) ==
    /\ pc[r] = "received"
    /\ route[r] = "/protected_resource/"
    /\ LET got == HTTPBasic_call(security, authorization[r])
       IN  IF got.kind = "raise"
           THEN /\ response' = [response EXCEPT ![r] = got.exc]
                /\ pc' = [pc EXCEPT ![r] = "done"]
                /\ UNCHANGED credentials
           ELSE /\ credentials' = [credentials EXCEPT ![r] = got.value]
                /\ pc' = [pc EXCEPT ![r] = "credentials"]
                /\ UNCHANGED response
    /\ UNCHANGED <<database, route, authorization, user_repository,
                   access_service, outcome>>

\* Variant of ProvideAccessService: the credentials instance is kept in one
\* process-wide slot, so the service may be built with the credentials of
\* whichever request filled the slot last.
ProvideAccessService_shared(r) ==
    /\ pc[r] = "credentials"
    /\ database' = IF database.created THEN database ELSE Created(DBProvider_database)
    /\ \E q \in Requests :
          /\ credentials[q] # None
          /\ LET repo == UserRepository(database')
             IN  /\ user_repository' = [user_repository EXCEPT ![r] = repo]
                 /\ access_service' =
                       [access_service EXCEPT ![r] = AccessService(credentials[q], repo)]
    /\ pc' = [pc EXCEPT ![r] = "injected"]
    /\ UNCHANGED <<route, authorization, credentials, outcome, response>>

\* The container builds the rest of the request's graph: the APP-scoped list
\* (made on first use, cached for the process), then a UserRepository and an
\* AccessService of this request.
ProvideAccessService(r) ==
    /\ pc[r] = "credentials"
    /\ database' = IF database.created THEN database ELSE Created(DBProvider_database)
    /\ LET repo == UserRepository(database')
       IN  /\ user_repository' = [user_repository EXCEPT ![r] = repo]
           /\ access_service' =
                 [access_service EXCEPT ![r] = AccessService(credentials[r], repo)]
    /\ pc' = [pc EXCEPT ![r] = "injected"]
    /\ UNCHANGED <<route, authorization, credentials, outcome, response>>

\* Variant of GetProtectedResource: the lookup consumes the list it scans
\* (pop instead of iterate), dropping the list's first record.
GetProtectedResource_consuming(r) ==
    /\ pc[r] = "injected"
    /\ LET result == check_auth(access_service[r], database)
       IN  /\ outcome' = [outcome EXCEPT ![r] = result]
           /\ response' = [response EXCEPT ![r] = protected_resource_response(result.end)]
    /\ database' = [database EXCEPT !.instance =
                       IF @ = <<>> THEN @ ELSE Tail(@)]
    /\ pc' = [pc EXCEPT ![r] = "done"]
    /\ UNCHANGED <<route, authorization, credentials, user_repository,
                   access_service>>

\* get_protected_resource: the handler body runs without a suspension point.
GetProtectedResource(r) ==
    /\ pc[r] = "injected"
    /\ LET result == check_auth(access_service[r], database)
       IN  /\ outcome' = [outcome EXCEPT ![r] = result]
           /\ response' = [response EXCEPT ![r] = protected_resource_response(result.end)]
    /\ pc' = [pc EXCEPT ![r] = "done"]
    /\ UNCHANGED <<database, route, authorization, credentials, user_repository,
                   access_service>>

\* The response is sent and the REQUEST scope is closed: its instances are
\* dropped.
Finish(r) ==
    /\ pc[r] = "done"
    /\ pc' = [pc EXCEPT ![r] = "idle"]
    /\ route' = [route EXCEPT ![r] = "-"]
    /\ authorization' = [authorization EXCEPT ![r] = None]
    /\ credentials' = [credentials EXCEPT ![r] = None]
    /\ user_repository' = [user_repository EXCEPT ![r] = None]
    /\ access_service' = [access_service EXCEPT ![r] = None]
    /\ outcome' = [outcome EXCEPT ![r] = None]
    /\ response' = [response EXCEPT ![r] = None]
    /\ UNCHANGED database

Next ==
    \E r \in Requests :
        \/ Receive(r)
        \/ Index(r)
        \/ ProvideCredentials(r)
        \/ ProvideAccessService(r)
        \/ GetProtectedResource(r)
        \/ Finish(r)

Spec == Init /\ [][Next]_vars

\* ---------------------------------------------------------------- any store
\* with_username and check_auth as functions of the list: the same requests
\* served over every list of at most MaxStoreLen records, lists with two
\* records of one username included.
StoreUsernames == {"user1", "User1"}
StorePasswords == {"pass1", "pass5"}
StoreUsers == {User(u, p) : u \in StoreUsernames, p \in StorePasswords}

Stores == UNION {[1..n -> StoreUsers] : n \in 0..MaxStoreLen}

InitStores ==
    /\ \E list \in Stores : database = Created(list)
    /\ InitRequests

NextStores ==
    \/ Receive(1)
    \/ Index(1)
    \/ ProvideCredentials(1)
    \/ ProvideAccessService(1)
    \/ GetProtectedResource(1)
    \/ Finish(1)

SpecStores == InitStores /\ [][NextStores]_vars

\* ---------------------------------------------------------------- claims
Protected(r) == route[r] = "/protected_resource/"

\* The request's handler has run check_auth.
Checked(r) == pc[r] = "done" /\ Protected(r) /\ outcome[r] # None

Secret == [text |-> "You got my secret, welcome!"]

Challenge == <<"WWW-Authenticate", "Basic">>

\* The positions of the list whose record has this username.
Positions(list, username) == {i \in 1..Len(list) : list[i].username = username}

IsStoredPair(list, creds) ==
    \E i \in 1..Len(list) :
        list[i].username = creds.username /\ list[i].password = creds.password

\* C1: check_auth called with a (username, password) pair that is a record of
\* the user store returns the stored User with that username and password and
\* raises nothing.
C1_StoredPairReturnsUser ==
    \A r \in Requests :
        (Checked(r) /\ access_service[r]._credentials # None
           /\ IsStoredPair(database.instance, access_service[r]._credentials))
        => /\ outcome[r].end.kind = "return"
           /\ outcome[r].end.exc = "-"
           /\ outcome[r].end.value.username = access_service[r]._credentials.username
           /\ outcome[r].end.value.password = access_service[r]._credentials.password
           /\ \E i \in 1..Len(database.instance) :
                 database.instance[i] = outcome[r].end.value

C1_Witness ==
    \E r \in Requests :
        /\ Checked(r)
        /\ access_service[r]._credentials = HTTPBasicCredentials("user5", "pass5")
        /\ outcome[r].end.kind = "return"

\* C2: a supplied username equal to no stored username, the empty username
\* included, with any password, ends check_auth in UserNotFoundError and never
\* in UserNotAuthenticatedError.
C2_UnknownUsernameNotFound ==
    \A r \in Requests :
        (Checked(r) /\ access_service[r]._credentials # None
           /\ Positions(database.instance, access_service[r]._credentials.username) = {})
        => /\ outcome[r].end.kind = "raise"
           /\ outcome[r].end.exc = UserNotFoundError
           /\ outcome[r].end.exc # UserNotAuthenticatedError

C2_Witness ==
    \E r1, r2 \in Requests :
        /\ Checked(r1) /\ Checked(r2)
        /\ access_service[r1]._credentials = HTTPBasicCredentials("", "pass1")
        /\ access_service[r2]._credentials = HTTPBasicCredentials("User1", "pass1")
        /\ outcome[r1].end.exc = UserNotFoundError
        /\ outcome[r2].end.exc = UserNotFoundError

\* C3: a supplied username present in the store with a password not exactly
\* equal to that user's stored password (a difference in letter case or in
\* whitespace included) ends check_auth in UserNotAuthenticatedError.
C3_WrongPasswordNotAuthenticated ==
    \A r \in Requests :
        (Checked(r) /\ access_service[r]._credentials # None)
        => \A i \in 1..Len(database.instance) :
              (/\ database.instance[i].username = access_service[r]._credentials.username
               /\ database.instance[i].password # access_service[r]._credentials.password)
              => /\ outcome[r].end.kind = "raise"
                 /\ outcome[r].end.exc = UserNotAuthenticatedError

C3_Witness ==
    \E r1, r2 \in Requests :
        /\ Checked(r1) /\ Checked(r2)
        /\ access_service[r1]._credentials = HTTPBasicCredentials("user1", "PASS1")
        /\ access_service[r2]._credentials = HTTPBasicCredentials("user1", "pass1 ")
        /\ outcome[r1].end.exc = UserNotAuthenticatedError
        /\ outcome[r2].end.exc = UserNotAuthenticatedError

\* C4: two GET /protected_resource/ requests, one failing with
\* UserNotFoundError and one with UserNotAuthenticatedError, get identical
\* responses: status 401, header WWW-Authenticate: Basic, detail
\* "User not authenticated".
C4_FailuresIndistinguishable ==
    \A r1, r2 \in Requests :
        (/\ Checked(r1) /\ Checked(r2)
         /\ outcome[r1].end.exc = UserNotFoundError
         /\ outcome[r2].end.exc = UserNotAuthenticatedError)
        => /\ response[r1] = response[r2]
           /\ response[r1].status_code = 401
           /\ response[r1].headers = {Challenge}
           /\ response[r1].body = [detail |-> "User not authenticated"]

C4_Witness ==
    \E r1, r2 \in Requests :
        /\ Checked(r1) /\ Checked(r2)
        /\ outcome[r1].end.exc = UserNotFoundError
        /\ outcome[r2].end.exc = UserNotAuthenticatedError
        /\ response[r1].status_code = 401
        /\ response[r2].status_code = 401

\* The five records the store is created with.
InitialRecords ==
    << [username |-> "user1", password |-> "pass1"],
       [username |-> "user2", password |-> "pass2"],
       [username |-> "user3", password |-> "pass3"],
       [username |-> "user4", password |-> "pass4"],
       [username |-> "user5", password |-> "pass5"] >>

\* C5: GET /protected_resource/ is answered 200 with the body
\* "You got my secret, welcome!" exactly when the credentials supplied are a
\* (username, password) pair of the store; with any other credentials
\* supplied the answer is 401 and the success string is not returned.
C5_SuccessIffStoredPair ==
    \A r \in Requests :
        (pc[r] = "done" /\ Protected(r))
        => /\ (response[r].status_code = 200 /\ response[r].body = Secret)
                <=> (/\ authorization[r] # None
                     /\ IsStoredPair(InitialRecords, authorization[r]))
           /\ (authorization[r] # None /\ ~IsStoredPair(InitialRecords, authorization[r]))
                => /\ response[r].status_code = 401
                   /\ response[r].body # Secret

C5_Witness ==
    \E r1, r2 \in Requests :
        /\ pc[r1] = "done" /\ Protected(r1)
        /\ authorization[r1] = HTTPBasicCredentials("user1", "pass1")
        /\ response[r1].status_code = 200 /\ response[r1].body = Secret
        /\ pc[r2] = "done" /\ Protected(r2)
        /\ authorization[r2] = HTTPBasicCredentials("user1", "pass5")
        /\ response[r2].status_code = 401

\* C6: GET /protected_resource/ without Basic-Auth credentials is answered
\* 401 with the header WWW-Authenticate: Basic and never with the success
\* body.
C6_NoCredentialsChallenged ==
    \A r \in Requests :
        (pc[r] = "done" /\ Protected(r) /\ authorization[r] = None)
        => /\ response[r].status_code = 401
           /\ Challenge \in response[r].headers
           /\ response[r].body # Secret

C6_Witness ==
    \E r \in Requests :
        /\ pc[r] = "done" /\ Protected(r) /\ authorization[r] = None
        /\ response[r].status_code = 401

\* C7: the store is created once and is read-only: once the list exists no
\* step of any request changes it, and it holds the five initial records in
\* their order with their usernames and passwords.
C7_StoreReadOnly ==
    [][ /\ database.created => database' = database
        /\ database'.created => database'.instance = InitialRecords ]_vars

C7_Witness ==
    /\ database.created
    /\ \E r1, r2 \in Requests :
          /\ pc[r1] = "done" /\ route[r1] = "/"
          /\ Checked(r2) /\ outcome[r2].end.kind = "raise"

\* C8: per-request state does not leak across requests: the AccessService of
\* a request holds the credentials that request carried and its own
\* repository, two requests carrying the same credentials get the same
\* outcome and response whatever else is in flight, and a request whose scope
\* is closed keeps no instance.
C8_NoLeakAcrossRequests ==
    /\ \A r \in Requests :
          /\ ((Protected(r) /\ pc[r] \in {"credentials", "injected"}) \/ Checked(r))
                => credentials[r] = authorization[r]
          /\ ((Protected(r) /\ pc[r] = "injected") \/ Checked(r))
                => /\ access_service[r]._credentials = authorization[r]
                   /\ access_service[r]._user_repository = user_repository[r]
          /\ pc[r] = "idle"
                => /\ credentials[r] = None
                   /\ user_repository[r] = None
                   /\ access_service[r] = None
    /\ \A r1, r2 \in Requests :
          (/\ pc[r1] = "done" /\ pc[r2] = "done"
           /\ route[r1] = route[r2]
           /\ authorization[r1] = authorization[r2])
          => /\ outcome[r1] = outcome[r2]
             /\ response[r1] = response[r2]

C8_Witness ==
    \E r1, r2 \in Requests :
        /\ r1 # r2
        /\ Checked(r1)
        /\ Protected(r2) /\ pc[r2] = "injected"
        /\ authorization[r1] = HTTPBasicCredentials("user1", "pass1")
        /\ authorization[r2] = HTTPBasicCredentials("user1", "PASS1")
        /\ outcome[r1].end.kind = "return"

\* The least position of a non-empty set of positions.
First(positions) == CHOOSE i \in positions : \A j \in positions : i <= j

\* C9: with_username returns the first record in list order whose username
\* equals the input exactly, or None when no record matches; where two
\* records share a username it returns the earlier one, and check_auth
\* compares the supplied password with that record's password only.
C9_FirstMatchOnly ==
    \A r \in Requests :
        (Checked(r) /\ access_service[r]._credentials # None)
        => LET list == database.instance
               data == access_service[r]._credentials
               at   == Positions(list, data.username)
           IN  /\ at = {} => outcome[r].user = None
               /\ at # {} =>
                     /\ outcome[r].user = list[First(at)]
                     /\ outcome[r].end =
                           IF list[First(at)].password = data.password
                           THEN Return(list[First(at)])
                           ELSE Raise(UserNotAuthenticatedError)

C9_Witness ==
    \E r \in Requests :
        /\ Checked(r)
        /\ database.instance = << User("user1", "pass1"), User("user1", "pass5") >>
        /\ access_service[r]._credentials = HTTPBasicCredentials("user1", "pass5")
        /\ outcome[r].user = User("user1", "pass1")
        /\ outcome[r].end.exc = UserNotAuthenticatedError

\* C10: check_auth is total and ends in exactly one of three ways: it returns
\* a User (never None), raises UserNotFoundError or raises
\* UserNotAuthenticatedError; so a request that reaches the handler gets one
\* response, 200 or 401, and no error leaves the handler.
C10_ThreeExclusiveOutcomes ==
    \A r \in Requests :
        /\ (Protected(r) /\ pc[r] = "injected") => ENABLED GetProtectedResource(r)
        /\ Checked(r)
              => /\ \/ /\ outcome[r].end.kind = "return"
                       /\ outcome[r].end.value # None
                       /\ outcome[r].end.value = outcome[r].user
                       /\ outcome[r].end.exc = "-"
                       /\ response[r].status_code = 200
                    \/ /\ outcome[r].end.kind = "raise"
                       /\ outcome[r].end.value = None
                       /\ outcome[r].end.exc \in {UserNotFoundError, UserNotAuthenticatedError}
                       /\ response[r].status_code = 401
                 /\ response[r] # InternalServerError

C10_Witness ==
    \E r \in Requests :
        /\ Checked(r)
        /\ database.instance = << User("User1", "pass1"), User("user1", "pass5") >>
        /\ outcome[r].end.kind = "return"
        /\ outcome[r].end.value = User("user1", "pass5")

====
